---------------------------- MODULE Spec2Model ----------------------------
(***************************************************************************)
(* A model of src/lib/titlebar.js: the TitleBar widget, its maximize /     *)
(* restore toggle, its event emission, its UI listeners and its mount and  *)
(* unmount operations.                                                     *)
(*                                                                         *)
(* JavaScript values are modelled as strings.  The four values below stand *)
(* for the JavaScript values undefined, true, false and null; every other  *)
(* string is a JavaScript string with that content.                        *)
(***************************************************************************)
EXTENDS Naturals, Sequences, FiniteSets

VARIABLES
    live,          \* the widgets constructed so far
    options,       \* options[w]: this.options of widget w
    element,       \* element[w]: this.titlebarElement of widget w (classes, text, styles)
    children,      \* children[c]: the widgets' root elements that are children of node c, in order
    bodyClassList, \* the class list of document.body
    headStyles,    \* the ids of the <style> elements defaultcss has put in the document
    lastCall,      \* the last operation: widget, name, argument, methods entered, events emitted, result
    tracked,       \* tracked[w]: the resize() calls made on w while resize() is all that was called on it
    tally          \* when on: the operations run, the calls of the emitting methods and the events emitted

vars == <<live, options, element, children, bodyClassList, headStyles, lastCall, tracked, tally>>

---------------------------------------------------------------------------
(* Bounds and domains *)

\* resize() calls counted on a widget on which nothing else was called
MaxResizeRun == 4

\* operations run while the calls and the events are counted
MaxOps == 4

Widgets == {"w1", "w2"}

Undefined == "undefined"
JsTrue == "true"
JsFalse == "false"
JsNull == "null"

\* nodes a widget can be mounted in; "body" is document.body
Containers == {"body", "div"}

Titles == {"", "X"}
Icons == {"", "b.png"}
Colors == {"#fff"}

\* if (v) ... in JavaScript, for the values of the model
Truthy(v) == v \notin {Undefined, JsFalse, JsNull, ""}

\* !v in JavaScript
Not(v) == IF Truthy(v) THEN JsFalse ELSE JsTrue

---------------------------------------------------------------------------
(* Configurations passed to the constructor *)

NoOptions ==
    [icon |-> Undefined, title |-> Undefined, color |-> Undefined,
     backgroundColor |-> Undefined, darkMode |-> Undefined,
     draggable |-> Undefined, fullscreen |-> Undefined]

\* The configurations the widget is constructed with: each group of related
\* fields takes all its values while the other fields are absent, and one
\* configuration sets every field.
Configs ==
    {[NoOptions EXCEPT !.fullscreen = f] : f \in {Undefined, JsFalse, JsTrue}}
    \cup
    {[NoOptions EXCEPT !.darkMode = m, !.color = c] :
        m \in {Undefined, JsTrue, JsFalse, JsNull}, c \in {Undefined} \cup Colors}
    \cup
    {[NoOptions EXCEPT !.icon = i] : i \in {"", "a.png"}}
    \cup
    {[NoOptions EXCEPT !.title = t] : t \in {"", "App"}}
    \cup
    {[icon |-> "a.png", title |-> "App", color |-> "#fff",
      backgroundColor |-> "#fff", darkMode |-> JsFalse,
      draggable |-> JsTrue, fullscreen |-> JsTrue]}

---------------------------------------------------------------------------
(* The view: the template's elements *)

\* The elements of one rendered template and the parent of each: a root with an
\* icon, a title and the three controls, each control holding one glyph shape.
ElementParent ==
    [e \in {"icon", "title", "minimizeButton", "resizeButton", "closeButton",
            "rect", "path", "polygon"} |->
        CASE e = "rect"    -> "minimizeButton"
          [] e = "path"    -> "resizeButton"
          [] e = "polygon" -> "closeButton"
          [] OTHER         -> "root"]

Elements == DOMAIN ElementParent \cup {"root"}

\* the elements from e up to the root, in the order an event bubbles
RECURSIVE BubblePath(_)
BubblePath(e) == IF e = "root" THEN <<"root">> ELSE <<e>> \o BubblePath(ElementParent[e])

\* a.contains(b)
Contains(a, b) == \E i \in DOMAIN BubblePath(b) : BubblePath(b)[i] = a

\* domify(titlebarView, document): a fresh copy of the template
NewElement ==
    [classList |-> {"titlebar"}, titleText |-> "", iconBackgroundImage |-> "",
     titleColor |-> "", rectFill |-> "", pathFill |-> "", polygonFill |-> "",
     backgroundColor |-> ""]

---------------------------------------------------------------------------
(* The widget's methods.  A method takes the widget `self`, a record of its   *)
(* options, its root element, the methods entered so far in the running       *)
(* operation and the events emitted so far, and gives the widget it leaves.   *)

Enter(self, method) == [self EXCEPT !.calls = Append(@, method)]

\* this.emit(name): the listeners of this widget's own emitter run at once,
\* before emit returns, and see the maximized flag and the root element's
\* class list as they are then.
Emit(self, name) ==
    [self EXCEPT !.events = Append(@,
        [name |-> name,
         emitter |-> self.id,
         flag |-> self.options.maximized,
         marked |-> "maximized" \in self.el.classList])]

\* close() as it would be if it also marked the bar as closed
close_marksClosed(self) ==
    LET s1 == Enter(self, "close")
    IN  Emit([s1 EXCEPT !.el.classList = @ \cup {"closed"}], "close")

close(self) == Emit(Enter(self, "close"), "close")

\* minimize() as it would be if it emitted the event of maximize()
minimize_wrongEvent(self) == Emit(Enter(self, "minimize"), "maximize")

minimize(self) == Emit(Enter(self, "minimize"), "minimize")

\* maximize() as it would be if it set the flag itself
maximize_setsFlag(self) ==
    LET s1 == Enter(self, "maximize")
        s2 == [s1 EXCEPT !.el.classList = @ \cup {"maximized"},
                         !.options.maximized = JsTrue]
    IN  Emit(s2, "maximize")

maximize(self) ==
    LET s1 == Enter(self, "maximize")
        s2 == [s1 EXCEPT !.el.classList = @ \cup {"maximized"}]
    IN  Emit(s2, "maximize")

restore(self) ==
    LET s1 == Enter(self, "restore")
        s2 == [s1 EXCEPT !.el.classList = @ \ {"maximized"}]
    IN  Emit(s2, "restore")

\* resize() as it would be without its last line, the store of the flag
resize_keepsFlag(self) ==
    LET s1 == Enter(self, "resize")
        s2 == IF Truthy(s1.options.maximized) THEN restore(s1) ELSE s1
    IN  IF ~Truthy(s2.options.maximized) THEN maximize(s2) ELSE s2

\* resize() as it would be if it chose by the class of the root element
resize_byClass(self) ==
    LET s1 == Enter(self, "resize")
        s2 == IF "maximized" \in s1.el.classList THEN restore(s1) ELSE maximize(s1)
    IN  [s2 EXCEPT !.options.maximized = Not(@)]

\* resize() as it would be if it stored true instead of the negated flag
resize_storesTrue(self) ==
    LET s1 == Enter(self, "resize")
        s2 == IF Truthy(s1.options.maximized) THEN restore(s1) ELSE s1
        s3 == IF ~Truthy(s2.options.maximized) THEN maximize(s2) ELSE s2
    IN  [s3 EXCEPT !.options.maximized = JsTrue]

\* resize() as it would be if each branch stored the flag itself
resize_storesInBranch(self) ==
    LET s1 == Enter(self, "resize")
        s2 == IF Truthy(s1.options.maximized)
              THEN [restore(s1) EXCEPT !.options.maximized = JsFalse] ELSE s1
    IN  IF ~Truthy(s2.options.maximized)
        THEN [maximize(s2) EXCEPT !.options.maximized = JsTrue] ELSE s2

resize(self) ==
    LET s1 == Enter(self, "resize")
        s2 == IF Truthy(s1.options.maximized) THEN restore(s1) ELSE s1
        s3 == IF ~Truthy(s2.options.maximized) THEN maximize(s2) ELSE s2
    IN  [s3 EXCEPT !.options.maximized = Not(@)]

\* onDoubleclick() as it would be if it compared the target with the controls
\* themselves and not with what they contain
onDoubleclick_shallow(self, target) ==
    LET s1 == Enter(self, "onDoubleclick")
    IN  IF target \notin {"minimizeButton", "resizeButton", "closeButton"}
        THEN resize(s1)
        ELSE s1

\* event.target is the element the event was dispatched on
onDoubleclick(self, target) ==
    LET s1 == Enter(self, "onDoubleclick")
    IN  IF ~(Contains("minimizeButton", target) \/ Contains("resizeButton", target)
             \/ Contains("closeButton", target))
        THEN resize(s1)
        ELSE s1

\* setTitle() as it would be if it added to the text instead of replacing it
setTitle_appends(self, title) ==
    [Enter(self, "setTitle") EXCEPT !.el.titleText = @ \o title]

setIcon(self, icon) ==
    [Enter(self, "setIcon") EXCEPT !.el.iconBackgroundImage = "url(" \o icon \o ")"]

setTitle(self, title) ==
    [Enter(self, "setTitle") EXCEPT !.el.titleText = title]

\* The listeners as they would be if the double click went through onDoubleclick
Listeners_viaOnDoubleclick ==
    {[on |-> "root",           type |-> "dblclick", method |-> "onDoubleclick"],
     [on |-> "minimizeButton", type |-> "click",    method |-> "minimize"],
     [on |-> "resizeButton",   type |-> "click",    method |-> "resize"],
     [on |-> "closeButton",    type |-> "click",    method |-> "close"]}

\* The listeners init() attaches: the element, the event type and the method
\* the listener calls.
Listeners ==
    {[on |-> "root",           type |-> "dblclick", method |-> "resize"],
     [on |-> "minimizeButton", type |-> "click",    method |-> "minimize"],
     [on |-> "resizeButton",   type |-> "click",    method |-> "resize"],
     [on |-> "closeButton",    type |-> "click",    method |-> "close"]}

init(self) ==
    LET s1 == Enter(self, "init")
        s2 == IF Truthy(s1.options.draggable)
              THEN [s1 EXCEPT !.el.classList = @ \cup {"draggable"}] ELSE s1
        s3 == IF Truthy(s2.options.icon) THEN setIcon(s2, s2.options.icon) ELSE s2
    IN  IF Truthy(s3.options.title) THEN setTitle(s3, s3.options.title) ELSE s3

\* The constructor as it would be if it took the initial state from `fullscreen`
constructor_honoursFullscreen(config) ==
    init([options |-> [icon |-> config.icon, title |-> config.title,
                       color |-> config.color,
                       backgroundColor |-> config.backgroundColor,
                       darkMode |-> config.darkMode,
                       draggable |-> config.draggable,
                       fullscreen |-> config.fullscreen,
                       maximized |-> config.fullscreen],
          el |-> IF Truthy(config.fullscreen)
                 THEN [NewElement EXCEPT !.classList = @ \cup {"maximized"}]
                 ELSE NewElement,
          calls |-> <<"constructor">>,
          events |-> <<>>])

\* new TitleBar(config): this.options gets the seven fields of the
\* configuration and nothing else, so that this.options.maximized is undefined.
constructor(config) ==
    init([options |-> [icon |-> config.icon, title |-> config.title,
                       color |-> config.color,
                       backgroundColor |-> config.backgroundColor,
                       darkMode |-> config.darkMode,
                       draggable |-> config.draggable,
                       fullscreen |-> config.fullscreen,
                       maximized |-> Undefined],
          el |-> NewElement,
          calls |-> <<"constructor">>,
          events |-> <<>>])

\* The method a listener calls, run on the widget.
RunListener(self, l, target) ==
    CASE l.method = "resize"        -> resize(self)
      [] l.method = "minimize"      -> minimize(self)
      [] l.method = "close"         -> close(self)
      [] l.method = "onDoubleclick" -> onDoubleclick(self, target)

\* An event of type `type` dispatched on `target`: it bubbles from the target
\* up to the root, and on each element of the way the listeners attached to
\* that element for that type run.  path[i..] is the way still to go.
RECURSIVE DispatchEvent(_, _, _, _, _)
DispatchEvent(self, type, target, path, i) ==
    IF i > Len(path) THEN self
    ELSE LET here == {l \in Listeners : l.on = path[i] /\ l.type = type}
             s1 == IF here = {} THEN self
                   ELSE RunListener(self, CHOOSE l \in here : TRUE, target)
         IN  DispatchEvent(s1, type, target, path, i + 1)

---------------------------------------------------------------------------
(* The document.  `doc` is a record of the body's class list, the ids of the  *)
(* style elements in the head and the children of each container.             *)

\* defaultCss(id, css): a <style id=id> is put first in the head unless an
\* element with that id is already in the document.
defaultCss(doc, id) ==
    IF \E i \in DOMAIN doc.headStyles : doc.headStyles[i] = id
    THEN doc
    ELSE [doc EXCEPT !.headStyles = <<id>> \o @]

\* the sequence s without the element x
Without(s, x) == SelectSeq(s, LAMBDA y : y # x)

\* context.appendChild(el): the element leaves the parent it has, if any, and
\* becomes the last child of context.
appendChild(doc, context, w) ==
    [doc EXCEPT !.children =
        [c \in Containers |->
            IF c = context THEN Append(Without(doc.children[c], w), w)
            ELSE Without(doc.children[c], w)]]

\* node.removeChild(el), el being a child of node
removeChild(doc, node, w) ==
    [doc EXCEPT !.children[node] = Without(@, w)]

IsChild(doc, node, w) == \E i \in DOMAIN doc.children[node] : doc.children[node][i] = w

\* the styling part of appendTo(): the colour and the background colour
ApplyColors(self) ==
    LET s2 == IF Truthy(self.options.color)
              THEN [self EXCEPT !.el.titleColor = self.options.color,
                                !.el.rectFill = self.options.color,
                                !.el.pathFill = self.options.color,
                                !.el.polygonFill = self.options.color]
              ELSE self
    IN  IF Truthy(s2.options.backgroundColor)
        THEN [s2 EXCEPT !.el.backgroundColor = s2.options.backgroundColor]
        ELSE s2

\* appendTo() as it would be if it tested darkMode for truth
appendTo_truthyDarkMode(w, self, doc, context) ==
    LET s1 == Enter(self, "appendTo")
        ctx == IF context = Undefined THEN "body" ELSE context
        d1 == IF Truthy(s1.options.darkMode)
              THEN [doc EXCEPT !.bodyClassList = @ \cup {"titlebar-light"}]
              ELSE doc
    IN  [self |-> ApplyColors(s1),
         doc |-> appendChild(defaultCss(d1, "titlebar"), ctx, w),
         ret |-> "this"]

\* appendTo() as it would be if it always mounted in the body
appendTo_ignoresContext(w, self, doc, context) ==
    LET s1 == Enter(self, "appendTo")
        d1 == IF s1.options.darkMode # JsFalse
              THEN [doc EXCEPT !.bodyClassList = @ \cup {"titlebar-light"}]
              ELSE doc
    IN  [self |-> ApplyColors(s1),
         doc |-> appendChild(defaultCss(d1, "titlebar"), "body", w),
         ret |-> "this"]

\* appendTo() as it would be if it put its <style> in the head itself
appendTo_alwaysInjects(w, self, doc, context) ==
    LET s1 == Enter(self, "appendTo")
        ctx == IF context = Undefined THEN "body" ELSE context
        d1 == IF s1.options.darkMode # JsFalse
              THEN [doc EXCEPT !.bodyClassList = @ \cup {"titlebar-light"}]
              ELSE doc
        d2 == [d1 EXCEPT !.headStyles = <<"titlebar">> \o @]
    IN  [self |-> ApplyColors(s1), doc |-> appendChild(d2, ctx, w), ret |-> "this"]

\* appendTo(context = document.body); context is Undefined when the caller
\* gives none.  The result is the widget, the document and the value returned.
appendTo(w, self, doc, context) ==
    LET s1 == Enter(self, "appendTo")
        ctx == IF context = Undefined THEN "body" ELSE context
        d1 == IF s1.options.darkMode # JsFalse
              THEN [doc EXCEPT !.bodyClassList = @ \cup {"titlebar-light"}]
              ELSE doc
        s2 == ApplyColors(s1)
        d2 == defaultCss(d1, "titlebar")
        d3 == appendChild(d2, ctx, w)
    IN  [self |-> s2, doc |-> d3, ret |-> "this"]

\* What the free identifier `parent` of destroy() is bound to when destroy()
\* runs: nothing (a ReferenceError), the global window.parent, which is a
\* Window and has no removeChild (a TypeError), or a node the host has bound
\* the global to.
ParentBindings == {"unbound", "window"} \cup Containers

\* destroy(), with `parent` bound to `binding`.  removeChild throws when the
\* element is no child of the node.
destroy(w, self, doc, binding) ==
    LET s1 == Enter(self, "destroy")
    IN  IF binding \in Containers /\ IsChild(doc, binding, w)
        THEN [self |-> s1, doc |-> removeChild(doc, binding, w), ret |-> "this"]
        ELSE [self |-> s1, doc |-> doc, ret |-> "throws"]

---------------------------------------------------------------------------
(* The state machine *)

Doc == [bodyClassList |-> bodyClassList, headStyles |-> headStyles, children |-> children]

\* the widget w at the start of an operation
Self(w) == [id |-> w, options |-> options[w], el |-> element[w], calls |-> <<>>, events |-> <<>>]

\* The record of resize() calls: it counts the calls of resize() on a widget
\* as long as they are the only calls made on it, up to MaxResizeRun of them.
Track(w, op) ==
    [tracked EXCEPT ![w] =
        IF op = "resize" /\ @.only /\ @.resizes < MaxResizeRun
        THEN [only |-> TRUE, resizes |-> @.resizes + 1]
        ELSE [only |-> FALSE, resizes |-> 0]]

\* The methods that emit an event.
Emitters == {"close", "minimize", "maximize", "restore", "resize"}

\* The calls of the emitting methods that an operation makes from outside
\* them.  close(), minimize() and resize() are never called by an emitting
\* method; maximize() and restore() are called by resize(), so that an entry
\* of one of them is a call from outside only when it starts the operation.
OuterCalls(calls) ==
    Cardinality({i \in DOMAIN calls :
        \/ calls[i] \in {"close", "minimize", "resize"}
        \/ i = 1 /\ calls[i] \in {"maximize", "restore"}})

\* The count after an operation that left the widget as s.
Tally(s) ==
    IF tally.on
    THEN [on |-> TRUE, ops |-> tally.ops + 1,
          calls |-> tally.calls + OuterCalls(s.calls),
          events |-> tally.events + Len(s.events)]
    ELSE tally

\* The state an operation would leave if the widgets shared one root element
Commit_sharedElement(w, op, arg, s, d, ret) ==
    /\ options' = [options EXCEPT ![w] = s.options]
    /\ element' = [v \in Widgets |-> s.el]
    /\ bodyClassList' = d.bodyClassList
    /\ headStyles' = d.headStyles
    /\ children' = d.children
    /\ lastCall' = [widget |-> w, op |-> op, arg |-> arg, calls |-> s.calls,
                    events |-> s.events, ret |-> ret]
    /\ tracked' = Track(w, op)
    /\ tally' = Tally(s)
    /\ UNCHANGED live

\* The state after operation `op` with argument `arg` on widget w has left the
\* widget as s, the document as d, and returned ret.
Commit(w, op, arg, s, d, ret) ==
    /\ options' = [options EXCEPT ![w] = s.options]
    /\ element' = [element EXCEPT ![w] = s.el]
    /\ bodyClassList' = d.bodyClassList
    /\ headStyles' = d.headStyles
    /\ children' = d.children
    /\ lastCall' = [widget |-> w, op |-> op, arg |-> arg, calls |-> s.calls,
                    events |-> s.events, ret |-> ret]
    /\ tracked' = Track(w, op)
    /\ tally' = Tally(s)
    /\ UNCHANGED live

Close(w) == Commit(w, "close", Undefined, close(Self(w)), Doc, Undefined)

Minimize(w) == Commit(w, "minimize", Undefined, minimize(Self(w)), Doc, Undefined)

Maximize(w) == Commit(w, "maximize", Undefined, maximize(Self(w)), Doc, Undefined)

Restore(w) == Commit(w, "restore", Undefined, restore(Self(w)), Doc, Undefined)

Resize(w) == Commit(w, "resize", Undefined, resize(Self(w)), Doc, Undefined)

OnDoubleclick(w) ==
    \E target \in Elements :
        Commit(w, "onDoubleclick", target, onDoubleclick(Self(w), target), Doc, Undefined)

SetIcon(w) ==
    \E icon \in Icons : Commit(w, "setIcon", icon, setIcon(Self(w), icon), Doc, Undefined)

SetTitle(w) ==
    \E title \in Titles : Commit(w, "setTitle", title, setTitle(Self(w), title), Doc, Undefined)

\* the user, or the host through dispatchEvent, clicks or double-clicks an
\* element of the widget
Dispatch(w) ==
    \E type \in {"click", "dblclick"}, target \in Elements :
        Commit(w, type, target,
               DispatchEvent(Self(w), type, target, BubblePath(target), 1),
               Doc, Undefined)

AppendTo(w) ==
    \E context \in Containers \cup {Undefined} :
        LET r == appendTo(w, Self(w), Doc, context)
        IN  Commit(w, "appendTo", context, r.self, r.doc, r.ret)

Destroy(w) ==
    \E binding \in ParentBindings :
        LET r == destroy(w, Self(w), Doc, binding)
        IN  Commit(w, "destroy", binding, r.self, r.doc, r.ret)

\* a widget not constructed yet
Unconstructed == constructor(NoOptions)

\* One widget, constructed with a configuration of the set given, in a
\* document that holds nothing of the widget yet; `counting` says whether the
\* calls and the events are counted.
InitOne(configs, counting) ==
    \E config \in configs :
        LET s == constructor(config)
        IN  /\ live = {"w1"}
            /\ options = [w \in Widgets |-> IF w = "w1" THEN s.options ELSE Unconstructed.options]
            /\ element = [w \in Widgets |-> IF w = "w1" THEN s.el ELSE Unconstructed.el]
            /\ children = [c \in Containers |-> <<>>]
            /\ bodyClassList = {}
            /\ headStyles = <<>>
            /\ lastCall = [widget |-> "w1", op |-> "construct", arg |-> Undefined,
                           calls |-> s.calls, events |-> s.events, ret |-> "this"]
            /\ tracked = [w \in Widgets |-> [only |-> TRUE, resizes |-> 0]]
            /\ tally = [on |-> counting, ops |-> 0, calls |-> 0, events |-> 0]

\* One widget, constructed with any configuration.
Init == InitOne(Configs, FALSE)

Next ==
    \/ \E w \in live : Close(w)
    \/ \E w \in live : Minimize(w)
    \/ \E w \in live : Maximize(w)
    \/ \E w \in live : Restore(w)
    \/ \E w \in live : Resize(w)
    \/ \E w \in live : OnDoubleclick(w)
    \/ \E w \in live : SetIcon(w)
    \/ \E w \in live : SetTitle(w)
    \/ \E w \in live : Dispatch(w)
    \/ \E w \in live : AppendTo(w)
    \/ \E w \in live : Destroy(w)

Spec == Init /\ [][Next]_vars

\* One widget, without options or with every option, and at most MaxOps
\* operations on it, the calls and the events counted.
TallyConfigs ==
    {NoOptions,
     [icon |-> "a.png", title |-> "App", color |-> "#fff",
      backgroundColor |-> "#fff", darkMode |-> JsFalse,
      draggable |-> JsTrue, fullscreen |-> JsTrue]}

InitTally == InitOne(TallyConfigs, TRUE)

Counting == tally.ops < MaxOps

NextTally ==
    \/ Counting /\ \E w \in live : Close(w)
    \/ Counting /\ \E w \in live : Minimize(w)
    \/ Counting /\ \E w \in live : Maximize(w)
    \/ Counting /\ \E w \in live : Restore(w)
    \/ Counting /\ \E w \in live : Resize(w)
    \/ Counting /\ \E w \in live : OnDoubleclick(w)
    \/ Counting /\ \E w \in live : SetIcon(w)
    \/ Counting /\ \E w \in live : SetTitle(w)
    \/ Counting /\ \E w \in live : Dispatch(w)
    \/ Counting /\ \E w \in live : AppendTo(w)
    \/ Counting /\ \E w \in live : Destroy(w)

SpecTally == InitTally /\ [][NextTally]_vars

\* One widget, without options or with every option, every operation on it
\* in any order, and resize() called again and again.
InitLive == InitOne(TallyConfigs, FALSE)

SpecLive == InitLive /\ [][Next]_vars /\ WF_vars(\E w \in live : Resize(w))

\* Several widgets in one document: every widget is constructed, each with
\* its own darkMode, and the widgets are mounted and unmounted in any order.
ThemeConfigs ==
    {[NoOptions EXCEPT !.darkMode = m] : m \in {Undefined, JsTrue, JsFalse, JsNull}}

\* every widget constructed, each with a configuration of the set given
InitAll(configs) ==
    \E config \in [Widgets -> configs] :
        /\ live = Widgets
        /\ options = [w \in Widgets |-> constructor(config[w]).options]
        /\ element = [w \in Widgets |-> constructor(config[w]).el]
        /\ children = [c \in Containers |-> <<>>]
        /\ bodyClassList = {}
        /\ headStyles = <<>>
        /\ lastCall = [widget |-> "w2", op |-> "construct", arg |-> Undefined,
                       calls |-> constructor(config["w2"]).calls,
                       events |-> <<>>, ret |-> "this"]
        /\ tracked = [w \in Widgets |-> [only |-> TRUE, resizes |-> 0]]
        /\ tally = [on |-> FALSE, ops |-> 0, calls |-> 0, events |-> 0]

InitMulti == InitAll(ThemeConfigs)

NextMulti ==
    \/ \E w \in live : AppendTo(w)
    \/ \E w \in live : Destroy(w)

SpecMulti == InitMulti /\ [][NextMulti]_vars

\* Several widgets side by side: every widget is constructed without options,
\* and the methods that emit, the setters and the UI events run on them in
\* any order.
PairConfigs == {NoOptions}

InitPair == InitAll(PairConfigs)

NextPair ==
    \/ \E w \in live : Close(w)
    \/ \E w \in live : Minimize(w)
    \/ \E w \in live : Maximize(w)
    \/ \E w \in live : Restore(w)
    \/ \E w \in live : Resize(w)
    \/ \E w \in live : SetIcon(w)
    \/ \E w \in live : SetTitle(w)
    \/ \E w \in live : Dispatch(w)

SpecPair == InitPair /\ [][NextPair]_vars

---------------------------------------------------------------------------
(* What the properties below read from a state *)

\* the value of the maximized flag of w, as a test reads it
Flag(w) == Truthy(options[w].maximized)

\* whether the root element of w carries the class "maximized"
Marked(w) == "maximized" \in element[w].classList

\* whether the root element of w is a child of some container
Mounted(w) == \E c \in Containers : IsChild(Doc, c, w)

\* the names of the events an operation emitted, in order
EventNames(call) == [i \in DOMAIN call.events |-> call.events[i].name]

\* whether nothing was called on w since its construction
Fresh(w) == tracked[w].only /\ tracked[w].resizes = 0

Odd(n) == n % 2 = 1

\* the methods a run of the toggle enters
ToggleCalls == {<<"resize", "maximize">>, <<"resize", "restore">>}

---------------------------------------------------------------------------
(* Properties *)

\* C1: on a widget on which only resize() was called, N >= 1 times, the last
\* call emitted exactly one event, maximize when N is odd and restore when N
\* is even, and the maximized flag is true exactly when N is odd.
C1_ResizeAlternates ==
    \A w \in live :
        (tracked[w].only /\ tracked[w].resizes >= 1) =>
            /\ Flag(w) <=> Odd(tracked[w].resizes)
            /\ lastCall.widget = w =>
                /\ lastCall.op = "resize"
                /\ EventNames(lastCall) =
                     <<IF Odd(tracked[w].resizes) THEN "maximize" ELSE "restore">>

C1_ThirdResize ==
    \E w \in live :
        /\ tracked[w].only /\ tracked[w].resizes = 3
        /\ lastCall.op = "resize" /\ EventNames(lastCall) = <<"maximize">>

\* C2: in every reachable state the maximized flag is true if and only if the
\* root element carries the class "maximized".
C2_FlagIffMarker == \A w \in live : Flag(w) <=> Marked(w)

\* C3: a call of minimize(), direct or from the click on the minimize control,
\* emits exactly one event, minimize, and leaves the maximized flag and the
\* class "maximized" of the root element as they were.
C3_MinimizeFrame ==
    [][\A w \in live :
        (lastCall'.widget = w /\ lastCall'.calls = <<"minimize">>) =>
            /\ EventNames(lastCall') = <<"minimize">>
            /\ options'[w].maximized = options[w].maximized
            /\ Marked(w)' <=> Marked(w)]_vars

C3_MinimizedWhileMaximized ==
    \E w \in live :
        /\ lastCall.widget = w /\ lastCall.op = "minimize"
        /\ EventNames(lastCall) = <<"minimize">>
        /\ Flag(w) /\ Marked(w)

\* C4: a call of close(), direct or from the click on the close control, emits
\* exactly one event, close, and changes nothing of the widget or the document:
\* the options with the flag, the root element with its classes, title and
\* icon, and where the element is mounted.
C4_CloseFrame ==
    [][\A w \in live :
        (lastCall'.widget = w /\ lastCall'.calls = <<"close">>) =>
            /\ EventNames(lastCall') = <<"close">>
            /\ UNCHANGED <<live, options, element, children, bodyClassList, headStyles>>]_vars

C4_ClosedWhileMounted ==
    \E w \in live :
        /\ lastCall.widget = w /\ lastCall.op = "close"
        /\ EventNames(lastCall) = <<"close">>
        /\ Mounted(w) /\ Flag(w) /\ element[w].titleText = "X"

\* C5: a direct call of maximize() leaves the root element with the class
\* "maximized", emits exactly one event, maximize, and leaves the flag as it
\* was; a direct call of restore() leaves the root element without the class,
\* emits exactly one event, restore, and leaves the flag as it was; the flag
\* changes only in an operation that runs resize().
C5_RawSetters ==
    [][\A w \in live :
        /\ (lastCall'.widget = w /\ lastCall'.op = "maximize") =>
            /\ Marked(w)'
            /\ EventNames(lastCall') = <<"maximize">>
            /\ options'[w].maximized = options[w].maximized
        /\ (lastCall'.widget = w /\ lastCall'.op = "restore") =>
            /\ ~Marked(w)'
            /\ EventNames(lastCall') = <<"restore">>
            /\ options'[w].maximized = options[w].maximized
        /\ options'[w].maximized # options[w].maximized =>
            /\ lastCall'.widget = w
            /\ \E i \in DOMAIN lastCall'.calls : lastCall'.calls[i] = "resize"]_vars

C5_MaximizedWithFlagFalse ==
    \E w \in live :
        /\ lastCall.widget = w /\ lastCall.op = "maximize"
        /\ options[w].maximized = JsFalse /\ Marked(w)

C7_Listeners ==
    [][\A w \in live :
        /\ (lastCall'.widget = w /\ lastCall'.op = "dblclick") =>
            /\ lastCall'.calls \in ToggleCalls
            /\ Flag(w)' <=> ~Flag(w)
        /\ (lastCall'.widget = w /\ lastCall'.op = "click") =>
            /\ Contains("minimizeButton", lastCall'.arg) => lastCall'.calls = <<"minimize">>
            /\ Contains("resizeButton", lastCall'.arg) =>
                /\ lastCall'.calls \in ToggleCalls
                /\ Flag(w)' <=> ~Flag(w)
            /\ Contains("closeButton", lastCall'.arg) => lastCall'.calls = <<"close">>
            /\ lastCall'.arg \in {"root", "icon", "title"} =>
                /\ lastCall'.calls = <<>>
                /\ UNCHANGED <<options, element>>]_vars

C7_DblclickOnMinimizeGlyph ==
    \E w \in live :
        /\ lastCall.widget = w /\ lastCall.op = "dblclick" /\ lastCall.arg = "rect"
        /\ lastCall.calls = <<"resize", "restore">>

\* C8: destroy() on a mounted widget removes the root element from its
\* container and returns the widget.
C8_DestroyUnmounts ==
    [][\A w \in live :
        (lastCall'.widget = w /\ lastCall'.op = "destroy" /\ Mounted(w)) =>
            /\ ~Mounted(w)'
            /\ lastCall'.ret = "this"]_vars

\* C9: appendTo(container) leaves the root element a child of the container,
\* of the body when none is given, and of no other node; it returns the
\* widget, emits no event and leaves the maximized flag and the class
\* "maximized" as they were.
C9_AppendTo ==
    [][\A w \in live :
        (lastCall'.widget = w /\ lastCall'.op = "appendTo") =>
            LET ctx == IF lastCall'.arg = Undefined THEN "body" ELSE lastCall'.arg
            IN  /\ \A c \in Containers :
                    Len(SelectSeq(children'[c], LAMBDA x : x = w)) = IF c = ctx THEN 1 ELSE 0
                /\ lastCall'.ret = "this"
                /\ lastCall'.events = <<>>
                /\ options'[w].maximized = options[w].maximized
                /\ Marked(w)' <=> Marked(w)]_vars

C9_MountedInDiv ==
    \E w \in live :
        /\ lastCall.widget = w /\ lastCall.op = "appendTo" /\ lastCall.arg = "div"
        /\ children["div"] = <<w>> /\ children["body"] = <<>>
        /\ Flag(w) /\ Marked(w)

\* C10: when the body has no class "titlebar-light", mounting a widget leaves
\* the body with that class exactly when the widget's darkMode is not the
\* value false: absent, true or any other value applies it, false does not.
C10_ThemeOnMount ==
    [][\A w \in live :
        (lastCall'.widget = w /\ lastCall'.op = "appendTo"
            /\ "titlebar-light" \notin bodyClassList) =>
            ("titlebar-light" \in bodyClassList' <=> options[w].darkMode # JsFalse)]_vars

C10_DarkModeFalseMounted ==
    \E w \in live :
        /\ lastCall.widget = w /\ lastCall.op = "appendTo"
        /\ options[w].darkMode = JsFalse
        /\ Mounted(w) /\ "titlebar-light" \notin bodyClassList

\* C13: a widget constructed with a non-empty title shows that title, and one
\* constructed with a non-empty icon has the image reference url(icon); after
\* setTitle(x) the title text is x, for the empty string too, and after
\* setIcon(q) the image reference is url(q) and nothing else; a setter called
\* again with the same argument changes nothing of the widget or the document.
C13_Setters ==
    [][\A w \in live :
        /\ (Fresh(w) /\ Truthy(options[w].title)) =>
              element[w].titleText = options[w].title
        /\ (Fresh(w) /\ Truthy(options[w].icon)) =>
              element[w].iconBackgroundImage = "url(" \o options[w].icon \o ")"
        /\ (lastCall'.widget = w /\ lastCall'.op = "setTitle") =>
              element'[w].titleText = lastCall'.arg
        /\ (lastCall'.widget = w /\ lastCall'.op = "setIcon") =>
              element'[w].iconBackgroundImage = "url(" \o lastCall'.arg \o ")"
        /\ (lastCall'.widget = w /\ lastCall.widget = w
              /\ lastCall'.op \in {"setTitle", "setIcon"}
              /\ lastCall'.op = lastCall.op /\ lastCall'.arg = lastCall.arg) =>
              UNCHANGED <<options, element, children, bodyClassList, headStyles>>]_vars

C13_TitleReplaced ==
    \E w \in live :
        /\ options[w].title = "App" /\ options[w].icon = "a.png"
        /\ lastCall.widget = w /\ lastCall.op = "setTitle" /\ lastCall.arg = "X"
        /\ element[w].titleText = "X"
        /\ element[w].iconBackgroundImage = "url(b.png)"

\* C14: whenever resize() emits maximize or restore, the listeners, which run
\* inside emit, read a flag that agrees with the class of the root element:
\* true with the class present in a maximize listener, false with the class
\* absent in a restore listener.
C14_ListenersSeeAgreement ==
    \A i \in DOMAIN lastCall.events :
        (\E j \in DOMAIN lastCall.calls : lastCall.calls[j] = "resize") =>
            LET e == lastCall.events[i]
            IN  /\ e.name = "maximize" => (Truthy(e.flag) /\ e.marked)
                /\ e.name = "restore" => (~Truthy(e.flag) /\ ~e.marked)

\* C18: when a direct call of resize() has returned, whatever was called
\* before it, the flag is true if and only if the root element carries the
\* class "maximized"; the one event it emitted is restore when the flag was
\* true before the call and maximize otherwise, whatever the class was.
C18_ResizeResynchronises ==
    [][\A w \in live :
        (lastCall'.widget = w /\ lastCall'.op = "resize") =>
            /\ Flag(w)' <=> Marked(w)'
            /\ Flag(w)' <=> ~Flag(w)
            /\ EventNames(lastCall') = <<IF Flag(w) THEN "restore" ELSE "maximize">>]_vars

C18_ResizeAfterRawSetter ==
    \E w \in live :
        /\ lastCall.widget = w /\ lastCall.op = "resize"
        /\ ~tracked[w].only
        /\ EventNames(lastCall) = <<"restore">>
        /\ ~Flag(w) /\ ~Marked(w)

C11_LastMountWins ==
    lastCall.op = "appendTo" =>
        ("titlebar-light" \in bodyClassList <=> options[lastCall.widget].darkMode # JsFalse)

\* C12: whatever the widgets and the order of their appendTo calls, the
\* document holds the style element "titlebar" exactly once after an appendTo,
\* never more than once, and once it is there it stays there once.
C12_StylesheetOnce ==
    [][/\ Len(SelectSeq(headStyles', LAMBDA id : id = "titlebar")) <= 1
       /\ lastCall'.op = "appendTo" =>
            Len(SelectSeq(headStyles', LAMBDA id : id = "titlebar")) = 1
       /\ Len(SelectSeq(headStyles, LAMBDA id : id = "titlebar")) = 1 =>
            Len(SelectSeq(headStyles', LAMBDA id : id = "titlebar")) = 1]_vars

C12_TwoWidgetsMounted ==
    /\ children["body"] = <<"w1", "w2">>
    /\ lastCall.op = "appendTo" /\ lastCall.widget = "w2"
    /\ headStyles = <<"titlebar">>

\* C15: with several widgets, a method that emits, a setter or a UI event on
\* one widget leaves the options (with the maximized flag) and the root element
\* (with its classes, title and icon) of every other widget as they were, and
\* every event of the operation is emitted on the widget operated on, so that
\* no listener of another widget runs.
C15_OtherWidgetsUntouched ==
    [][\A w \in live : \A v \in live \ {w} :
        (lastCall'.widget = w
            /\ lastCall'.op \in {"resize", "maximize", "restore", "minimize", "close",
                                 "setTitle", "setIcon", "click", "dblclick"}) =>
            /\ options'[v] = options[v]
            /\ element'[v] = element[v]
            /\ \A i \in DOMAIN lastCall'.events : lastCall'.events[i].emitter = w]_vars

C15_ResizeBesideChangedWidget ==
    /\ lastCall.widget = "w1" /\ lastCall.op = "resize"
    /\ Flag("w1") /\ Marked("w1")
    /\ ~Flag("w2") /\ ~Marked("w2")
    /\ element["w2"].titleText = "X" /\ element["w1"].titleText = ""
    /\ element["w2"].iconBackgroundImage = "url(b.png)"
    /\ element["w1"].iconBackgroundImage = ""

\* C16: over any sequence of operations the number of events emitted equals
\* the number of calls of close(), minimize(), maximize(), restore() and
\* resize() made from outside these methods, each operation emitting one event
\* for each such call it makes; the construction, appendTo(), destroy(),
\* setIcon() and setTitle() emit none.
C16_EventsEqualCalls ==
    tally.on =>
        /\ tally.events = tally.calls
        /\ Len(lastCall.events) = OuterCalls(lastCall.calls)
        /\ lastCall.op \in Emitters => Len(lastCall.events) = 1
        /\ lastCall.op \in {"construct", "appendTo", "destroy", "setIcon", "setTitle"} =>
              lastCall.events = <<>>

C16_CountedRun ==
    /\ tally.on /\ tally.ops = 4 /\ tally.calls = 2 /\ tally.events = 2
    /\ lastCall.op = "setTitle"
    /\ \E w \in live : Flag(w) /\ Mounted(w)

\* C17: the toggle has no terminal state: in every reachable state resize()
\* can run, every run of it flips the flag, and when resize() is called again
\* and again the widget is in Normal infinitely often and in Maximized
\* infinitely often.
C17_TogglesForever ==
    /\ [](\A w \in live : ENABLED Resize(w))
    /\ [][\A w \in live :
            (lastCall'.widget = w /\ lastCall'.op = "resize") => (Flag(w)' <=> ~Flag(w))]_vars
    /\ \A w \in Widgets :
        /\ []<>(w \in live => Flag(w))
        /\ []<>(w \in live => ~Flag(w))

C17_ResizeAfterMixedHistory ==
    \E w \in live :
        /\ lastCall.widget = w /\ lastCall.op = "resize"
        /\ ~tracked[w].only
        /\ Flag(w) /\ Mounted(w)
        /\ element[w].titleText = "X"

===========================================================================
